---- MODULE Spec2Model ----
(***************************************************************************)
(* genie: AI-powered git commit message generator (src/main.go).           *)
(*                                                                         *)
(* One run of the program is a linear pipeline: parse the arguments, probe *)
(* the git repository, read the API key, collect the changes, read the     *)
(* status, POST the prompt, print the message, copy it to the clipboard.   *)
(* Every external collaborator (git, the HTTP endpoint, the environment,   *)
(* the clipboard utilities) answers nondeterministically.                  *)
(*                                                                         *)
(* A Go string is modelled as a sequence of atoms.  An atom is either one  *)
(* character that the code inspects (a space, a newline, a quote) or an    *)
(* opaque chunk of text that the code only copies around.                  *)
(***************************************************************************)
EXTENDS Naturals, Integers, Sequences, FiniteSets, TLC

VARIABLES
    args,         \* os.Args[1:], a sequence of strings
    token,        \* the value of GOOGLE_AI_TOKEN in the environment ("" when unset)
    pc,           \* position of main
    context,      \* main: context
    apiKey,       \* main: apiKey
    stagedDiff,     \* getGitDiff: stagedDiff, the trimmed output of git diff --cached
    unstagedDiff,   \* getGitDiff: unstagedDiff, the trimmed output of git diff
    untrackedFiles, \* getGitDiff: untrackedFiles, the trimmed output of git ls-files
    diff,         \* main: diff
    changesType,  \* main: changesType
    status,       \* main: status
    commitMsg,    \* main: commitMsg
    genErr,       \* the error returned by generateCommitMessage ("" when nil)
    resp,         \* the outcome of the HTTP round trip of this run
    execLog,      \* subprocesses launched so far, in order
    httpLog,      \* HTTP requests issued so far, in order
    probed,       \* exec.LookPath probes made by copyToClipboard, in order
    goos,         \* runtime.GOOS as read by copyToClipboard ("" before)
    copyErr,      \* main: err after copyToClipboard ("" when nil)
    stdout,       \* lines written to the standard output
    stderr,       \* lines written to the error stream
    exitCode      \* -1 while running, then the exit status

vars == <<args, token, pc, context, apiKey, stagedDiff, unstagedDiff,
          untrackedFiles, diff, changesType, status, commitMsg, genErr, resp,
          execLog, httpLog, probed, goos, copyErr, stdout, stderr, exitCode>>

(***************************************************************************)
(* Bounds of the model.                                                    *)
(***************************************************************************)
MaxArgs == 2    \* longest argument vector
MaxOut == 2     \* longest raw output of a git diff command
MaxList == 3    \* longest raw output of git ls-files
MaxCand == 2    \* most candidates in a response
MaxParts == 2   \* most parts in a candidate
MaxText == 5    \* longest response text given to the clean-up harness

SeqsUpTo(S, n) == UNION {[1..k -> S] : k \in 0..n}

(***************************************************************************)
(* String helpers of the Go standard library, as the code uses them.       *)
(***************************************************************************)
SpaceChars == {" ", "\t", "\n", "\r"}

QuoteChars == {"\"", "'"}

CtlChars == {"\t", "\n", "\r"}

\* strings.Trim(s, cutset): drop every leading and trailing atom of cutset
Trim(s, cutset) ==
    LET keep == {i \in 1..Len(s) : s[i] \notin cutset}
        lo == CHOOSE i \in keep : \A j \in keep : i <= j
        hi == CHOOSE i \in keep : \A j \in keep : j <= i
    IN  IF keep = {} THEN <<>> ELSE SubSeq(s, lo, hi)

TrimSpace(s) == Trim(s, SpaceChars)

RECURSIVE Join_noSeparator(_, _)
\* strings.Join without the separator
Join_noSeparator(elems, sep) ==
    IF Len(elems) = 0 THEN <<>>
    ELSE elems[1] \o Join_noSeparator(Tail(elems), sep)

RECURSIVE Join(_, _)
\* strings.Join(elems, sep)
Join(elems, sep) ==
    IF Len(elems) = 0 THEN <<>>
    ELSE IF Len(elems) = 1 THEN elems[1]
    ELSE elems[1] \o sep \o Join(Tail(elems), sep)

RECURSIVE Split(_, _)
\* strings.Split(s, sep) for a one-atom separator
Split(s, sep) ==
    LET at == {i \in 1..Len(s) : s[i] = sep}
        first == CHOOSE i \in at : \A j \in at : i <= j
    IN  IF at = {} THEN <<s>>
        ELSE <<SubSeq(s, 1, first - 1)>> \o Split(SubSeq(s, first + 1, Len(s)), sep)

(***************************************************************************)
(* Inputs.                                                                 *)
(***************************************************************************)
\* main inspects the first argument only: it ranges over every flag, an
\* unrecognized flag and a word, the arguments after it over the flags that
\* would matter in the first position
Tokens == {<<"--version">>, <<"-v">>, <<"--help">>, <<"-h">>, <<"wip">>, <<"--amend">>}

LaterTokens == {<<"--version">>, <<"--help">>}

ArgVectors ==
    {<<>>} \cup {<<t>> \o rest : t \in Tokens, rest \in SeqsUpTo(LaterTokens, MaxArgs - 1)}

ApiKeys == {<<>>, <<"key">>, <<"key", "\n">>}

DiffChars == {"d", "\n"}

ListChars == {"f", "\n"}

\* the result of running a subprocess: its exit status and standard output
CmdFail == [ok |-> FALSE, out |-> <<>>]

DiffResults == {CmdFail} \cup {[ok |-> TRUE, out |-> o] : o \in SeqsUpTo(DiffChars, MaxOut)}

ListResults == {CmdFail} \cup {[ok |-> TRUE, out |-> o] : o \in SeqsUpTo(ListChars, MaxList)}

StatusResults == {CmdFail, [ok |-> TRUE, out |-> <<>>],
                  [ok |-> TRUE, out |-> <<" ", "M", " ", "f", "\n">>]}

\* a subprocess launched: its command line, whether it succeeded, its stdin
Exec(cmd, ok) == [cmd |-> cmd, ok |-> ok, stdin |-> <<>>]

Line(l, t) == [line |-> l, text |-> t]

(***************************************************************************)
(* getGitDiff: staged, then unstaged, then untracked.  rs, ru, rl are what *)
(* the three git commands answer if they are run; ran lists the commands   *)
(* that were run.                                                          *)
(***************************************************************************)
\* lines 266-270 writing the first file only
writeFiles_firstOnly(files) ==
    IF files = <<>> \/ files[1] = <<>> THEN <<>>
    ELSE <<"+", " ">> \o files[1] \o <<"\n">>

RECURSIVE writeFiles(_)
writeFiles(files) ==
    IF files = <<>> THEN <<>>
    ELSE (IF files[1] # <<>> THEN <<"+", " ">> \o files[1] \o <<"\n">> ELSE <<>>)
         \o writeFiles(Tail(files))

untrackedSummary(listing) ==
    <<"New untracked files:", "\n">> \o writeFiles(Split(listing, "\n"))

\* line 237 with the test inverted
hasStaged_inverted(s) == s = <<>>

\* line 237: staged changes are returned as soon as there are some
hasStaged(s) == s # <<>>

\* line 249
hasUnstaged(u) == u # <<>>

\* line 261 with the test left out
hasUntracked_always(l) == TRUE

\* line 261
hasUntracked(l) == l # <<>>

\* lines 243-246 with the error of git diff ignored
getGitDiff_ignoresDiffError(rs, ru, rl) ==
    LET cs == Exec("git diff --cached", rs.ok)
        cu == Exec("git diff", ru.ok)
        cl == Exec("git ls-files --others --exclude-standard", rl.ok)
        s == TrimSpace(rs.out)
        u == TrimSpace(ru.out)
        l == TrimSpace(rl.out)
        ret(d, k, e, ran, ls) ==
            [diff |-> d, changesType |-> k, err |-> e, ran |-> ran,
             stagedDiff |-> ls[1], unstagedDiff |-> ls[2], untrackedFiles |-> ls[3]]
    IN  IF ~rs.ok THEN ret(<<>>, "", TRUE, <<cs>>, <<<<>>, <<>>, <<>>>>)
        ELSE IF hasStaged(s) THEN ret(s, "staged", FALSE, <<cs>>, <<s, <<>>, <<>>>>)
        ELSE IF hasUnstaged(u) THEN ret(u, "unstaged", FALSE, <<cs, cu>>, <<s, u, <<>>>>)
        ELSE IF ~rl.ok THEN ret(<<>>, "", TRUE, <<cs, cu, cl>>, <<s, u, <<>>>>)
        ELSE IF hasUntracked(l)
             THEN ret(untrackedSummary(l), "untracked", FALSE, <<cs, cu, cl>>, <<s, u, l>>)
        ELSE ret(<<>>, "", FALSE, <<cs, cu, cl>>, <<s, u, l>>)

getGitDiff(rs, ru, rl) ==
    LET cs == Exec("git diff --cached", rs.ok)
        cu == Exec("git diff", ru.ok)
        cl == Exec("git ls-files --others --exclude-standard", rl.ok)
        s == TrimSpace(rs.out)
        u == TrimSpace(ru.out)
        l == TrimSpace(rl.out)
        ret(d, k, e, ran, ls) ==
            [diff |-> d, changesType |-> k, err |-> e, ran |-> ran,
             stagedDiff |-> ls[1], unstagedDiff |-> ls[2], untrackedFiles |-> ls[3]]
    IN  IF ~rs.ok THEN ret(<<>>, "", TRUE, <<cs>>, <<<<>>, <<>>, <<>>>>)
        ELSE IF hasStaged(s) THEN ret(s, "staged", FALSE, <<cs>>, <<s, <<>>, <<>>>>)
        ELSE IF ~ru.ok THEN ret(<<>>, "", TRUE, <<cs, cu>>, <<s, <<>>, <<>>>>)
        ELSE IF hasUnstaged(u) THEN ret(u, "unstaged", FALSE, <<cs, cu>>, <<s, u, <<>>>>)
        ELSE IF ~rl.ok THEN ret(<<>>, "", TRUE, <<cs, cu, cl>>, <<s, u, <<>>>>)
        ELSE IF hasUntracked(l)
             THEN ret(untrackedSummary(l), "untracked", FALSE, <<cs, cu, cl>>, <<s, u, l>>)
        ELSE ret(<<>>, "", FALSE, <<cs, cu, cl>>, <<s, u, l>>)

(***************************************************************************)
(* Initial state: the process has started with some argument vector.       *)
(***************************************************************************)
NoResp == [kind |-> "none"]

Init ==
    /\ args \in ArgVectors
    /\ token \in ApiKeys
    /\ pc = "parseArgs"
    /\ context = <<>>
    /\ apiKey = <<>>
    /\ stagedDiff = <<>>
    /\ unstagedDiff = <<>>
    /\ untrackedFiles = <<>>
    /\ diff = <<>>
    /\ changesType = ""
    /\ status = <<>>
    /\ commitMsg = <<>>
    /\ genErr = <<>>
    /\ resp = NoResp
    /\ execLog = <<>>
    /\ httpLog = <<>>
    /\ probed = <<>>
    /\ goos = ""
    /\ copyErr = <<>>
    /\ stdout = <<>>
    /\ stderr = <<>>
    /\ exitCode = -1

\* the argument vectors whose first argument is no flag (or that are empty)
RunModeArgs(a) ==
    Len(a) = 0 \/ a[1] \notin {<<"--version">>, <<"-v">>, <<"--help">>, <<"-h">>}

\* os.Exit(code), or main returning (code 0)
Exit(code) == pc' = "done" /\ exitCode' = code

(***************************************************************************)
(* main, lines 86-102: argument parsing.                                   *)
(***************************************************************************)
\* lines 91-96 with the return after the version line and the usage text missing
MainParseArgs_noReturn ==
    /\ pc = "parseArgs"
    /\ IF Len(args) > 0 /\ args[1] \in {<<"--version">>, <<"-v">>}
       THEN stdout' = Append(stdout, Line("version", <<"genie", " ", "v", "1.0.0">>))
       ELSE IF Len(args) > 0 /\ args[1] \in {<<"--help">>, <<"-h">>}
       THEN stdout' = Append(stdout, Line("help", <<>>))
       ELSE stdout' = stdout
    /\ context' = (IF RunModeArgs(args) /\ Len(args) > 0 THEN Join(args, <<" ">>) ELSE <<>>)
    /\ pc' = "isGitRepo"
    /\ UNCHANGED <<args, token, apiKey, stagedDiff, unstagedDiff, untrackedFiles,
                   diff, changesType, status, commitMsg, genErr,
                   resp, execLog, httpLog, probed, goos, copyErr, stderr, exitCode>>

MainParseArgs ==
    /\ pc = "parseArgs"
    /\ IF Len(args) > 0 /\ args[1] \in {<<"--version">>, <<"-v">>}
       THEN /\ stdout' = Append(stdout, Line("version", <<"genie", " ", "v", "1.0.0">>))
            /\ Exit(0)
            /\ UNCHANGED context
       ELSE IF Len(args) > 0 /\ args[1] \in {<<"--help">>, <<"-h">>}
       THEN /\ stdout' = Append(stdout, Line("help", <<>>))
            /\ Exit(0)
            /\ UNCHANGED context
       ELSE /\ context' = (IF Len(args) > 0 THEN Join(args, <<" ">>) ELSE <<>>)
            /\ pc' = "isGitRepo"
            /\ UNCHANGED <<stdout, exitCode>>
    /\ UNCHANGED <<args, token, apiKey, stagedDiff, unstagedDiff, untrackedFiles,
                   diff, changesType, status, commitMsg, genErr,
                   resp, execLog, httpLog, probed, goos, copyErr, stderr>>

(***************************************************************************)
(* main, lines 104-108, and isGitRepo.                                     *)
(***************************************************************************)
\* isGitRepo ignoring the error of git rev-parse
isGitRepo_always(ok) == TRUE

\* isGitRepo: err == nil, where ok says whether git rev-parse succeeded
isGitRepo(ok) == ok

MainIsGitRepo ==
    /\ pc = "isGitRepo"
    /\ \E ok \in BOOLEAN :
        /\ execLog' = Append(execLog, Exec("git rev-parse --git-dir", ok))
        /\ IF ~isGitRepo(ok)
           THEN /\ stderr' = Append(stderr, Line("Error: Not a git repository", <<>>))
                /\ Exit(1)
           ELSE /\ pc' = "getenv"
                /\ UNCHANGED <<stderr, exitCode>>
    /\ UNCHANGED <<args, token, context, apiKey, stagedDiff, unstagedDiff, untrackedFiles,
                   diff, changesType, status, commitMsg,
                   genErr, resp, httpLog, probed, goos, copyErr, stdout>>

(***************************************************************************)
(* main, lines 110-121: the API key, then the context echo.                *)
(***************************************************************************)
\* line 112 with the test left out
keyMissing_never(key) == FALSE

keyMissing(key) == key = <<>>

MainGetenv ==
    /\ pc = "getenv"
    /\ LET key == token IN
        /\ apiKey' = key
        /\ IF keyMissing(key)
           THEN /\ stderr' = Append(stderr,
                      Line("Error: GOOGLE_AI_TOKEN environment variable not set", <<>>))
                /\ Exit(1)
                /\ UNCHANGED stdout
           ELSE /\ stdout' = (IF context # <<>>
                              THEN Append(stdout, Line("Context", context))
                              ELSE stdout)
                /\ pc' = "getGitDiff"
                /\ UNCHANGED <<stderr, exitCode>>
    /\ UNCHANGED <<args, token, context, stagedDiff, unstagedDiff, untrackedFiles,
                   diff, changesType, status, commitMsg, genErr,
                   resp, execLog, httpLog, probed, goos, copyErr>>

(***************************************************************************)
(* main, lines 123-145: change collection and the nothing-to-commit exit.  *)
(***************************************************************************)
\* line 130
\* line 128 never taking the "nothing to commit" exit
nothingToCommit_never(d) == FALSE

nothingToCommit(d) == TrimSpace(d) = <<>>

MainGetGitDiff ==
    /\ pc = "getGitDiff"
    /\ \E rs \in DiffResults, ru \in DiffResults, rl \in ListResults :
        LET g == getGitDiff(rs, ru, rl) IN
        /\ execLog' = execLog \o g.ran
        /\ stagedDiff' = g.stagedDiff
        /\ unstagedDiff' = g.unstagedDiff
        /\ untrackedFiles' = g.untrackedFiles
        /\ diff' = g.diff
        /\ changesType' = g.changesType
        /\ IF g.err
           THEN /\ stderr' = Append(stderr, Line("Error getting git diff", <<>>))
                /\ Exit(1)
                /\ UNCHANGED stdout
           ELSE IF nothingToCommit(g.diff)
           THEN /\ stdout' = Append(stdout, Line("No changes detected. Nothing to commit!", <<>>))
                /\ Exit(0)
                /\ UNCHANGED stderr
           ELSE /\ stdout' = (IF g.changesType \in {"staged", "unstaged", "untracked"}
                              THEN Append(stdout, Line("Analyzing", <<g.changesType>>))
                              ELSE stdout)
                /\ pc' = "getGitStatus"
                /\ UNCHANGED <<stderr, exitCode>>
    /\ UNCHANGED <<args, token, context, apiKey, status, commitMsg, genErr, resp,
                   httpLog, probed, goos, copyErr>>

(***************************************************************************)
(* main, lines 147-152, and getGitStatus.                                  *)
(***************************************************************************)
\* lines 147-152 going on to the request when git status has failed
MainGetGitStatus_ignoresError ==
    /\ pc = "getGitStatus"
    /\ \E r \in StatusResults :
        /\ execLog' = Append(execLog, Exec("git status --porcelain", r.ok))
        /\ status' = r.out
        /\ pc' = "generateCommitMessage"
    /\ UNCHANGED <<args, token, context, apiKey, stagedDiff, unstagedDiff, untrackedFiles,
                   diff, changesType, commitMsg, genErr,
                   resp, httpLog, probed, goos, copyErr, stdout, stderr, exitCode>>

MainGetGitStatus ==
    /\ pc = "getGitStatus"
    /\ \E r \in StatusResults :
        /\ execLog' = Append(execLog, Exec("git status --porcelain", r.ok))
        /\ status' = r.out
        /\ IF ~r.ok
           THEN /\ stderr' = Append(stderr, Line("Error getting git status", <<>>))
                /\ Exit(1)
           ELSE /\ pc' = "generateCommitMessage"
                /\ UNCHANGED <<stderr, exitCode>>
    /\ UNCHANGED <<args, token, context, apiKey, stagedDiff, unstagedDiff, untrackedFiles,
                   diff, changesType, commitMsg, genErr,
                   resp, httpLog, probed, goos, copyErr, stdout>>

(***************************************************************************)
(* generateCommitMessage, lines 286-398: the prompt.                       *)
(***************************************************************************)
changesDescription(kind) ==
    CASE kind = "staged" -> <<"staged changes (ready to commit)">>
      [] kind = "unstaged" -> <<"unstaged changes (not yet staged for commit)">>
      [] kind = "untracked" -> <<"untracked files (new files not yet added to git)">>
      [] OTHER -> <<>>

\* lines 365-372 writing the section whatever the context is
contextSection_always(ctx) ==
    <<"DEVELOPER CONTEXT: The developer provided this context: ", "\"">>
    \o ctx \o <<"\"", "This context is CRITICAL">>

contextSection(ctx) ==
    IF ctx # <<>>
    THEN <<"DEVELOPER CONTEXT: The developer provided this context: ", "\"">>
         \o ctx \o <<"\"", "This context is CRITICAL">>
    ELSE <<>>

buildPrompt(d, st, ctx, kind) ==
    <<"RULES AND EMOJI GUIDE">>
    \o contextSection(ctx)
    \o <<"CHANGE ANALYSIS: You are analyzing: ">> \o changesDescription(kind)
    \o <<"Git Status Output:">> \o st
    \o <<"Git Diff/Changes:">> \o d
    \o <<"RESPONSE FORMAT AND EXAMPLES">>

(***************************************************************************)
(* generateCommitMessage, lines 434-456: from the parsed response to the   *)
(* commit message or the error.                                            *)
(***************************************************************************)
\* one layer of quotes: at most one leading and one trailing quote character
StripOneLayer(t) ==
    LET a == IF t # <<>> /\ t[1] \in QuoteChars THEN Tail(t) ELSE t
    IN  IF a # <<>> /\ a[Len(a)] \in QuoteChars THEN SubSeq(a, 1, Len(a) - 1) ELSE a

\* line 454 removing a single pair of quotes
cleanUp_oneLayer(text) == StripOneLayer(TrimSpace(text))

\* lines 453-454 in the other order: the quotes first, then the whitespace
cleanUp_quotesFirst(text) == TrimSpace(Trim(text, QuoteChars))

cleanUp(text) == Trim(TrimSpace(text), QuoteChars)

\* lines 439-449 with the candidates examined before the error object
parseResponse_candidatesFirst(geminiResp) ==
    IF Len(geminiResp.candidates) > 0 /\ Len(geminiResp.candidates[1]) > 0
    THEN [msg |-> cleanUp(geminiResp.candidates[1][1]), err |-> <<>>]
    ELSE IF geminiResp.error.present
    THEN [msg |-> <<>>, err |-> <<"API error: ">> \o geminiResp.error.message]
    ELSE IF Len(geminiResp.candidates) = 0
    THEN [msg |-> <<>>, err |-> <<"no response from Gemini API">>]
    ELSE [msg |-> <<>>, err |-> <<"empty response from Gemini API">>]

\* lines 443-449 returning an empty message instead of an error
parseResponse_emptyIsSuccess(geminiResp) ==
    IF geminiResp.error.present
    THEN [msg |-> <<>>, err |-> <<"API error: ">> \o geminiResp.error.message]
    ELSE IF Len(geminiResp.candidates) = 0 \/ Len(geminiResp.candidates[1]) = 0
    THEN [msg |-> <<>>, err |-> <<>>]
    ELSE [msg |-> cleanUp(geminiResp.candidates[1][1]), err |-> <<>>]

parseResponse(geminiResp) ==
    IF geminiResp.error.present
    THEN [msg |-> <<>>, err |-> <<"API error: ">> \o geminiResp.error.message]
    ELSE IF Len(geminiResp.candidates) = 0
    THEN [msg |-> <<>>, err |-> <<"no response from Gemini API">>]
    ELSE IF Len(geminiResp.candidates[1]) = 0
    THEN [msg |-> <<>>, err |-> <<"empty response from Gemini API">>]
    ELSE [msg |-> cleanUp(geminiResp.candidates[1][1]), err |-> <<>>]

\* http.NewRequest fails when the URL, which ends with the key, holds a
\* control character (net/url)
newRequestFails(key) == \E i \in 1..Len(key) : key[i] \in CtlChars

PartTexts == {<<"m">>, <<" ", "\"", "m", "\"">>}

\* the text of every part that is not the first part of the first candidate
OtherText == <<"o">>

\* the candidates with shape[i] parts in candidate i and t as the first text
candidatesOf(shape, t) ==
    [i \in 1..Len(shape) |->
        [j \in 1..shape[i] |-> IF i = 1 /\ j = 1 THEN t ELSE OtherText]]

CandidateLists(texts) ==
    {candidatesOf(shape, t) : shape \in SeqsUpTo(0..MaxParts, MaxCand), t \in texts}

ErrorInfos == {[present |-> FALSE, message |-> <<>>],
               [present |-> TRUE, message |-> <<"quota exceeded">>]}

GeminiResponses ==
    [error : ErrorInfos, candidates : CandidateLists(PartTexts)]

\* what the round trip can give: no response at all (timeout, connection
\* failure), a body that cannot be read, a body that is not the JSON of a
\* GeminiResponse, or a GeminiResponse
HttpOutcomes ==
    {[kind |-> "transport"], [kind |-> "read"], [kind |-> "badjson"]}
    \cup {[kind |-> "json", body |-> b] : b \in GeminiResponses}

\* lines 423-426 with one retry after a transport failure
roundTrips_retry(req, outcome) ==
    IF outcome.kind = "transport" THEN <<req, req>> ELSE <<req>>

\* lines 423-426: client.Do is called once, whatever it returns
roundTrips(req, outcome) == <<req>>

generateCommitMessage(key, d, st, ctx, kind, outcome) ==
    LET req == [method |-> "POST", key |-> key, prompt |-> buildPrompt(d, st, ctx, kind)]
        sent == roundTrips(req, outcome)
        ret(m, e, rs, o) == [msg |-> m, err |-> e, sent |-> rs, resp |-> o]
    IN  IF newRequestFails(key)
        THEN ret(<<>>, <<"net/url: invalid control character in URL">>, <<>>, NoResp)
        ELSE IF outcome.kind = "transport"
        THEN ret(<<>>, <<"transport error">>, sent, outcome)
        ELSE IF outcome.kind = "read"
        THEN ret(<<>>, <<"read error">>, sent, outcome)
        ELSE IF outcome.kind = "badjson"
        THEN ret(<<>>, <<"json error">>, sent, outcome)
        ELSE LET p == parseResponse(outcome.body)
             IN  ret(p.msg, p.err, sent, outcome)

(***************************************************************************)
(* main, lines 154-166: the request, then the display of the message.      *)
(***************************************************************************)
MainGenerate ==
    /\ pc = "generateCommitMessage"
    /\ \E outcome \in HttpOutcomes :
        LET g == generateCommitMessage(apiKey, diff, status, context, changesType, outcome) IN
        /\ httpLog' = httpLog \o g.sent
        /\ resp' = g.resp
        /\ commitMsg' = g.msg
        /\ genErr' = g.err
        /\ IF g.err # <<>>
           THEN /\ stderr' = Append(stderr, Line("Error generating commit message", g.err))
                /\ Exit(1)
                /\ UNCHANGED stdout
           ELSE /\ stdout' = Append(stdout, Line("Generated commit message", g.msg))
                /\ pc' = "copyToClipboard"
                /\ UNCHANGED <<stderr, exitCode>>
    /\ UNCHANGED <<args, token, context, apiKey, stagedDiff, unstagedDiff, untrackedFiles,
                   diff, changesType, status, execLog,
                   probed, goos, copyErr>>

(***************************************************************************)
(* copyToClipboard.  os is runtime.GOOS, found the utilities on the PATH,  *)
(* ok whether the clipboard subprocess succeeds if it is run.              *)
(***************************************************************************)
GoosValues == {"darwin", "linux", "windows", "freebsd"}

\* lines 467-473 probing xsel before xclip
LinuxUtilities_reordered == <<"xsel", "xclip", "wl-copy">>

LinuxUtilities == <<"xclip", "xsel", "wl-copy">>

RECURSIVE lookPaths(_, _)
\* the LookPath probes made over the utilities us, stopping at the first found
lookPaths(us, found) ==
    IF us = <<>> THEN <<>>
    ELSE IF us[1] \in found THEN <<[name |-> us[1], found |-> TRUE]>>
    ELSE <<[name |-> us[1], found |-> FALSE]>> \o lookPaths(Tail(us), found)

copyToClipboard(text, os, found, ok) ==
    LET run(cmd, ps) ==
            [err |-> IF ok THEN <<>> ELSE <<"exit status 1">>,
             ran |-> <<[cmd |-> cmd, ok |-> ok, stdin |-> text]>>,
             probes |-> ps]
        ps == lookPaths(LinuxUtilities, found)
    IN  CASE os = "darwin" -> run("pbcopy", <<>>)
          [] os = "linux" ->
                IF ps[Len(ps)].found
                THEN run(ps[Len(ps)].name, ps)
                ELSE [err |-> <<"no clipboard utility found (install xclip, xsel, or wl-copy)">>,
                      ran |-> <<>>, probes |-> ps]
          [] os = "windows" -> run("cmd /c clip", <<>>)
          [] OTHER -> [err |-> <<"unsupported operating system: ", os>>,
                       ran |-> <<>>, probes |-> <<>>]

(***************************************************************************)
(* main, lines 168-175: the clipboard copy and the end of the run.         *)
(***************************************************************************)
\* lines 170-174 printing the message again when the copy failed
copyReport_reprint(err, msg) ==
    IF err # <<>>
    THEN <<Line("Could not copy to clipboard", err), Line("Generated commit message", msg)>>
    ELSE <<Line("Copied to clipboard", <<>>)>>

\* lines 170-174: what main prints once copyToClipboard has returned err
copyReport(err, msg) ==
    IF err # <<>> THEN <<Line("Could not copy to clipboard", err)>>
    ELSE <<Line("Copied to clipboard", <<>>)>>

\* line 175 exiting with status 1 when the copy failed
exitAfterCopy_propagates(err) == IF err # <<>> THEN 1 ELSE 0

\* line 175: main returns whatever err was
exitAfterCopy(err) == 0

MainCopyToClipboard ==
    /\ pc = "copyToClipboard"
    /\ \E os \in GoosValues, found \in SUBSET {"xclip", "xsel", "wl-copy"}, ok \in BOOLEAN :
        LET c == copyToClipboard(commitMsg, os, found, ok) IN
        /\ goos' = os
        /\ probed' = c.probes
        /\ execLog' = execLog \o c.ran
        /\ copyErr' = c.err
        /\ stdout' = stdout \o copyReport(c.err, commitMsg)
        /\ Exit(exitAfterCopy(c.err))
    /\ UNCHANGED <<args, token, context, apiKey, stagedDiff, unstagedDiff, untrackedFiles,
                   diff, changesType, status, commitMsg,
                   genErr, resp, httpLog, stderr>>

Next ==
    \/ MainParseArgs
    \/ MainIsGitRepo
    \/ MainGetenv
    \/ MainGetGitDiff
    \/ MainGetGitStatus
    \/ MainGenerate
    \/ MainCopyToClipboard

Spec == Init /\ [][Next]_vars


(***************************************************************************)
(* The response clean-up on its own: the response is drawn from a larger   *)
(* set of texts and lines 439-456 are applied to it.                       *)
(***************************************************************************)
TextChars == {"m", " ", "\"", "'"}

HarnessResponses ==
    {[error |-> [present |-> FALSE, message |-> <<>>],
      candidates |-> candidatesOf(shape, t)] :
        shape \in {<<1>>, <<2>>, <<1, 1>>, <<2, 0>>},
        t \in SeqsUpTo(TextChars, MaxText)}

InitClean ==
    /\ args = <<>>
    /\ token = <<>>
    /\ pc = "parseResponse"
    /\ context = <<>>
    /\ apiKey = <<>>
    /\ stagedDiff = <<>>
    /\ unstagedDiff = <<>>
    /\ untrackedFiles = <<>>
    /\ diff = <<>>
    /\ changesType = ""
    /\ status = <<>>
    /\ commitMsg = <<>>
    /\ genErr = <<>>
    /\ resp \in {[kind |-> "json", body |-> b] : b \in HarnessResponses}
    /\ execLog = <<>>
    /\ httpLog = <<>>
    /\ probed = <<>>
    /\ goos = ""
    /\ copyErr = <<>>
    /\ stdout = <<>>
    /\ stderr = <<>>
    /\ exitCode = -1

ApplyParseResponse ==
    /\ pc = "parseResponse"
    /\ LET p == parseResponse(resp.body) IN
        /\ commitMsg' = p.msg
        /\ genErr' = p.err
    /\ pc' = "returned"
    /\ UNCHANGED <<args, token, context, apiKey, stagedDiff, unstagedDiff,
                   untrackedFiles, diff, changesType, status, resp, execLog,
                   httpLog, probed, goos, copyErr, stdout, stderr, exitCode>>

NextClean == ApplyParseResponse

SpecClean == InitClean /\ [][NextClean]_vars

(***************************************************************************)
(* Vocabulary of the properties.                                           *)
(***************************************************************************)
Ran(cmd) == \E i \in DOMAIN execLog : execLog[i].cmd = cmd

RanOk(cmd) == \E i \in DOMAIN execLog : execLog[i].cmd = cmd /\ execLog[i].ok

Printed(stream, l) == \E i \in DOMAIN stream : stream[i].line = l

ClipboardCommands == {"pbcopy", "xclip", "xsel", "wl-copy", "cmd /c clip"}

\* copyToClipboard was never entered
NoCopyAttempt ==
    /\ goos = ""
    /\ probed = <<>>
    /\ \A i \in DOMAIN execLog : execLog[i].cmd \notin ClipboardCommands

RunMode == Len(args) = 0 \/ args[1] \notin {<<"--version">>, <<"-v">>, <<"--help">>, <<"-h">>}

(***************************************************************************)
(* C1: getGitDiff returns the first non-empty source in the order staged,  *)
(* unstaged, untracked and queries no later source.  If the trimmed output *)
(* of git diff --cached is non-empty, the diff is that text, the kind is   *)
(* "staged" and neither git diff nor git ls-files was run; if it is empty  *)
(* and the trimmed output of git diff is non-empty, the diff is that text, *)
(* the kind is "unstaged" and git ls-files was not run.                    *)
(***************************************************************************)
C1_FirstNonEmptySource ==
    /\ stagedDiff # <<>> =>
          /\ diff = stagedDiff
          /\ changesType = "staged"
          /\ ~Ran("git diff")
          /\ ~Ran("git ls-files --others --exclude-standard")
    /\ (RanOk("git diff --cached") /\ stagedDiff = <<>> /\ unstagedDiff # <<>>) =>
          /\ diff = unstagedDiff
          /\ changesType = "unstaged"
          /\ ~Ran("git ls-files --others --exclude-standard")

C1_Witness ==
    /\ pc = "getGitStatus"
    /\ stagedDiff = <<"d">>
    /\ diff = <<"d">>
    /\ changesType = "staged"
    /\ Len(execLog) = 2

(***************************************************************************)
(* C2: when the three sources have been queried and all are empty after    *)
(* trimming, the run prints the nothing-to-commit message and exits 0; no  *)
(* HTTP request is issued, git status is not run and no clipboard copy is  *)
(* attempted.                                                              *)
(***************************************************************************)
AllSourcesEmpty ==
    /\ RanOk("git diff --cached")
    /\ RanOk("git diff")
    /\ RanOk("git ls-files --others --exclude-standard")
    /\ stagedDiff = <<>>
    /\ unstagedDiff = <<>>
    /\ untrackedFiles = <<>>

C2_NothingToCommit ==
    AllSourcesEmpty =>
        /\ pc = "done"
        /\ exitCode = 0
        /\ stdout # <<>>
        /\ stdout[Len(stdout)] = Line("No changes detected. Nothing to commit!", <<>>)
        /\ stderr = <<>>
        /\ httpLog = <<>>
        /\ ~Ran("git status --porcelain")
        /\ NoCopyAttempt

C2_Witness == AllSourcesEmpty /\ exitCode = 0 /\ context # <<>>

(***************************************************************************)
(* C3: with GOOGLE_AI_TOKEN unset or empty, a run in Run mode never gets   *)
(* past the key check, never issues an HTTP request and never exits 0:     *)
(* when it ends, it ends with exit status 1, whatever git answers.         *)
(***************************************************************************)
C3_MissingKeyAborts ==
    (token = <<>> /\ RunMode) =>
        /\ httpLog = <<>>
        /\ resp = NoResp
        /\ pc \in {"parseArgs", "isGitRepo", "getenv", "done"}
        /\ pc = "done" => exitCode = 1 /\ stderr # <<>>
        /\ pc # "done" => exitCode = -1

C3_Witness ==
    /\ token = <<>>
    /\ RunMode
    /\ pc = "done"
    /\ RanOk("git rev-parse --git-dir")
    /\ stderr = <<Line("Error: GOOGLE_AI_TOKEN environment variable not set", <<>>)>>
    /\ exitCode = 1

(***************************************************************************)
(* C4: the repository probe is the first subprocess of every run; when it  *)
(* fails the run reports "Not a git repository" and exits 1, and no other  *)
(* git command and no HTTP request is executed.                            *)
(***************************************************************************)
C4_ProbeFirst ==
    /\ execLog # <<>> => execLog[1].cmd = "git rev-parse --git-dir"
    /\ (execLog # <<>> /\ ~execLog[1].ok) =>
          /\ pc = "done"
          /\ exitCode = 1
          /\ stderr = <<Line("Error: Not a git repository", <<>>)>>
          /\ Len(execLog) = 1
          /\ httpLog = <<>>

C4_Witness ==
    /\ execLog = <<Exec("git rev-parse --git-dir", FALSE)>>
    /\ pc = "done"
    /\ exitCode = 1
    /\ token # <<>>

(***************************************************************************)
(* Vocabulary of the response properties.                                  *)
(***************************************************************************)
GotJson == resp.kind = "json"

ErrorObject == GotJson /\ resp.body.error.present

EmptyResponse ==
    /\ GotJson
    /\ ~resp.body.error.present
    /\ \/ Len(resp.body.candidates) = 0
       \/ Len(resp.body.candidates[1]) = 0

\* the run failed in generateCommitMessage with the error genErr
GenerationFailed ==
    /\ genErr # <<>>
    /\ commitMsg = <<>>
    /\ pc = "done"
    /\ exitCode = 1
    /\ stderr = <<Line("Error generating commit message", genErr)>>
    /\ ~Printed(stdout, "Generated commit message")
    /\ NoCopyAttempt

(***************************************************************************)
(* C5 as stated: a response with a top-level error object yields a failure *)
(* whose message equals the message field of that object.                  *)
(***************************************************************************)
C5_Original == ErrorObject => genErr = resp.body.error.message

(***************************************************************************)
(* C5 as amended: a response with a top-level error object yields a        *)
(* failure whose message is "API error: " followed by the message field of *)
(* that object, whether or not candidates are present; no commit message   *)
(* is printed or copied.                                                   *)
(***************************************************************************)
C5_ErrorObjectWins ==
    ErrorObject =>
        /\ genErr = <<"API error: ">> \o resp.body.error.message
        /\ GenerationFailed

C5_Witness ==
    /\ ErrorObject
    /\ Len(resp.body.candidates) > 0
    /\ Len(resp.body.candidates[1]) > 0
    /\ pc = "done"

(***************************************************************************)
(* C6: a response without an error object whose candidates list is empty,  *)
(* or whose first candidate has no parts, yields the "no response" or the  *)
(* "empty response" failure, which is neither the JSON parse failure nor a *)
(* transport failure; the run exits 1, prints no commit message and makes  *)
(* no clipboard copy.                                                      *)
(***************************************************************************)
C6_EmptyResponseFails ==
    EmptyResponse =>
        /\ genErr = (IF Len(resp.body.candidates) = 0
                     THEN <<"no response from Gemini API">>
                     ELSE <<"empty response from Gemini API">>)
        /\ genErr \notin {<<"json error">>, <<"transport error">>, <<"read error">>}
        /\ GenerationFailed

C6_Witness ==
    /\ EmptyResponse
    /\ Len(resp.body.candidates) = 2
    /\ Len(resp.body.candidates[2]) > 0
    /\ pc = "done"

(***************************************************************************)
(* C7 as stated: on success the commit message is the first candidate's    *)
(* first text, whitespace-trimmed, with exactly one layer of leading and   *)
(* trailing quote characters removed.                                      *)
(***************************************************************************)
Returned == pc = "returned" /\ genErr = <<>>

FirstText == resp.body.candidates[1][1]

C7_Original == Returned => commitMsg = StripOneLayer(TrimSpace(FirstText))

(***************************************************************************)
(* C7 as amended: on success the commit message is the first candidate's   *)
(* first text, whitespace-trimmed, with every leading and every trailing   *)
(* quote character removed: it is the part of the trimmed text between a   *)
(* prefix and a suffix made of quote characters only, and it neither       *)
(* begins nor ends with a quote; a trimmed text without wrapping quotes is *)
(* returned as it is.                                                      *)
(***************************************************************************)
OnlyQuotes(t) == \A i \in 1..Len(t) : t[i] \in QuoteChars

C7_AllQuotesStripped ==
    Returned =>
        LET t == TrimSpace(FirstText) IN
        /\ \E i \in 1..(Len(t) + 1), j \in 0..Len(t) :
              /\ commitMsg = SubSeq(t, i, j)
              /\ OnlyQuotes(SubSeq(t, 1, i - 1))
              /\ OnlyQuotes(SubSeq(t, j + 1, Len(t)))
        /\ commitMsg # <<>> =>
              /\ commitMsg[1] \notin QuoteChars
              /\ commitMsg[Len(commitMsg)] \notin QuoteChars
        /\ (t # <<>> /\ t[1] \notin QuoteChars /\ t[Len(t)] \notin QuoteChars) =>
              commitMsg = t

C7_Witness ==
    /\ Returned
    /\ FirstText = <<"\"", "\"", "m", "\"", "\"">>
    /\ commitMsg = <<"m">>

(***************************************************************************)
(* C8: a failed clipboard copy leaves the exit status at 0, and a run      *)
(* whose commit message was generated never exits with another status.     *)
(***************************************************************************)
CopyFailed == goos # "" /\ copyErr # <<>>

C8_CopyFailureExitsZero ==
    /\ CopyFailed => pc = "done" /\ exitCode = 0 /\ stderr = <<>>
    /\ Printed(stdout, "Generated commit message") => exitCode \in {-1, 0}

C8_Witness ==
    /\ CopyFailed
    /\ \E i \in DOMAIN execLog : execLog[i].cmd \in ClipboardCommands /\ ~execLog[i].ok
    /\ exitCode = 0

(***************************************************************************)
(* C9 as stated: when the clipboard copy fails, the commit message is      *)
(* written to the output a second time.                                    *)
(***************************************************************************)
MessageLines == {i \in DOMAIN stdout : stdout[i].line = "Generated commit message"}

C9_Original == (pc = "done" /\ CopyFailed) => Cardinality(MessageLines) >= 2

(***************************************************************************)
(* C9 as amended: when the clipboard copy fails, the run prints the notice *)
(* "Could not copy to clipboard" with the error and exits; the commit      *)
(* message is written to the output exactly once, before the copy is       *)
(* attempted, and is not printed again.                                    *)
(***************************************************************************)
C9_NoticeOnly ==
    CopyFailed =>
        /\ Len(stdout) >= 2
        /\ stdout[Len(stdout)] = Line("Could not copy to clipboard", copyErr)
        /\ MessageLines = {Len(stdout) - 1}
        /\ stdout[Len(stdout) - 1].text = commitMsg

C9_Witness ==
    /\ CopyFailed
    /\ pc = "done"
    /\ copyErr = <<"no clipboard utility found (install xclip, xsel, or wl-copy)">>
    /\ commitMsg = <<"m">>

(***************************************************************************)
(* C10 as stated: a run issues at most one HTTP request, and exactly one   *)
(* once generateCommitMessage has been called.                             *)
(***************************************************************************)
ClientReached == genErr # <<>> \/ Printed(stdout, "Generated commit message")

C10_Original ==
    /\ Len(httpLog) <= 1
    /\ ClientReached => Len(httpLog) = 1

(***************************************************************************)
(* C10 as amended: a run issues at most one HTTP request; once             *)
(* generateCommitMessage has been called it has issued exactly one, unless *)
(* the request could not be built because the URL, which carries the API   *)
(* key, is invalid, in which case it has issued none.  A transport         *)
(* failure, an unreadable or unparsable body, an error object or an empty  *)
(* response ends the run after that single request.                        *)
(***************************************************************************)
RequestNotBuilt == genErr = <<"net/url: invalid control character in URL">>

C10_AtMostOneRequest ==
    /\ Len(httpLog) <= 1
    /\ ClientReached => Len(httpLog) = (IF RequestNotBuilt THEN 0 ELSE 1)
    /\ ~ClientReached => httpLog = <<>>
    /\ (resp.kind \in {"transport", "read", "badjson"} \/ ErrorObject \/ EmptyResponse) =>
          /\ pc = "done"
          /\ exitCode = 1
          /\ Len(httpLog) = 1

C10_Witness ==
    /\ resp.kind = "transport"
    /\ pc = "done"
    /\ Len(httpLog) = 1
    /\ httpLog[1].key = <<"key">>

(***************************************************************************)
(* C11: every failure other than a clipboard failure (not a git            *)
(* repository, missing API key, a failing git diff or ls-files, a failing  *)
(* git status, a transport failure, an unparsable response, an error       *)
(* object, an empty response) ends the run with exit status 1 after one    *)
(* message on the error stream, and nothing runs after it; exit status 0   *)
(* occurs only after the version line, the usage text, the                 *)
(* nothing-to-commit message or a generated commit message.                *)
(***************************************************************************)
GitCommands == {"git rev-parse --git-dir", "git diff --cached", "git diff",
                "git ls-files --others --exclude-standard", "git status --porcelain"}

\* a git command has failed
GitFailed == \E i \in DOMAIN execLog : execLog[i].cmd \in GitCommands /\ ~execLog[i].ok

\* the run has ended with exit status 1 and one message on the error stream
Aborted == pc = "done" /\ exitCode = 1 /\ Len(stderr) = 1

C11_FailuresAreFatal ==
    /\ GitFailed =>
          /\ Aborted
          /\ ~execLog[Len(execLog)].ok
          /\ \A i \in 1..(Len(execLog) - 1) : execLog[i].ok
          /\ httpLog = <<>>
          /\ NoCopyAttempt
          /\ ~Printed(stdout, "Generated commit message")
    /\ (pc \notin {"parseArgs", "isGitRepo", "getenv"} /\ RunMode /\ token = <<>> /\ ~GitFailed) =>
          Aborted /\ Len(execLog) = 1 /\ httpLog = <<>>
    /\ (resp.kind \in {"transport", "read", "badjson"} \/ ErrorObject \/ EmptyResponse) =>
          Aborted /\ GenerationFailed
    /\ genErr # <<>> => Aborted /\ GenerationFailed
    /\ stderr # <<>> => Aborted
    /\ exitCode \in {-1, 0, 1}
    /\ exitCode = 1 => Aborted
    /\ exitCode = 0 =>
          /\ pc = "done"
          /\ stderr = <<>>
          /\ ~GitFailed
          /\ genErr = <<>>
          /\ stdout # <<>>
          /\ \/ ~RunMode /\ stdout[Len(stdout)].line \in {"version", "help"}
             \/ stdout[Len(stdout)].line = "No changes detected. Nothing to commit!"
             \/ /\ Printed(stdout, "Generated commit message")
                /\ resp.kind = "json"
                /\ Len(httpLog) = 1

C11_Witness ==
    /\ Aborted
    /\ execLog[Len(execLog)] = Exec("git status --porcelain", FALSE)
    /\ stderr = <<Line("Error getting git status", <<>>)>>
    /\ changesType = "unstaged"

(***************************************************************************)
(* C12: when the first argument is -v, --version, -h or --help, the run    *)
(* prints the version line or the usage text and exits 0; it runs no       *)
(* subprocess (no repository probe, no git command, no clipboard utility), *)
(* does not read the API key and issues no HTTP request, whatever the      *)
(* environment holds.                                                      *)
(***************************************************************************)
C12_FlagsShortCircuit ==
    ~RunMode =>
        /\ pc \in {"parseArgs", "done"}
        /\ execLog = <<>>
        /\ httpLog = <<>>
        /\ NoCopyAttempt
        /\ apiKey = <<>>
        /\ context = <<>>
        /\ stderr = <<>>
        /\ pc = "parseArgs" => stdout = <<>> /\ exitCode = -1
        /\ pc = "done" =>
              /\ exitCode = 0
              /\ stdout = (IF args[1] \in {<<"--version">>, <<"-v">>}
                           THEN <<Line("version", <<"genie", " ", "v", "1.0.0">>)>>
                           ELSE <<Line("help", <<>>)>>)

C12_Witness ==
    /\ args = <<(<<"-v">>), (<<"--help">>)>>
    /\ token = <<>>
    /\ pc = "done"
    /\ exitCode = 0
    /\ stdout = <<Line("version", <<"genie", " ", "v", "1.0.0">>)>>

(***************************************************************************)
(* C13: only the first argument is inspected for flags.  When it is none   *)
(* of -v, --version, -h, --help, the run enters Run mode and the context   *)
(* is all the arguments joined by single spaces, so that an unrecognized   *)
(* flag, and a --help or --version in a later position, are context text;  *)
(* without arguments the context is empty.                                 *)
(***************************************************************************)
\* the arguments, each of them one atom here, with one space between two
SpaceSeparated(a) ==
    [k \in 1..(IF Len(a) = 0 THEN 0 ELSE 2 * Len(a) - 1) |->
        IF k % 2 = 1 THEN a[(k + 1) \div 2][1] ELSE " "]

C13_FirstArgumentOnly ==
    /\ \A i \in DOMAIN args : Len(args[i]) = 1
    /\ (RunMode /\ pc # "parseArgs") =>
          /\ context = SpaceSeparated(args)
          /\ (Len(args) = 0 <=> context = <<>>)
          /\ execLog # <<>> \/ pc = "isGitRepo"
          /\ ~Printed(stdout, "version")
          /\ ~Printed(stdout, "help")
    /\ (RunMode /\ pc \notin {"parseArgs", "isGitRepo", "getenv"} /\ apiKey # <<>> /\ context # <<>>) =>
          stdout[1] = Line("Context", context)

C13_Witness ==
    /\ args = <<(<<"--amend">>), (<<"--help">>)>>
    /\ context = <<"--amend", " ", "--help">>
    /\ pc = "getGitStatus"

(***************************************************************************)
(* C14: when the staged and the unstaged diff are empty and the untracked  *)
(* listing is not, getGitDiff returns the kind "untracked" and a text made *)
(* of the header line followed by one line "+ <path>" for each path of the *)
(* listing, in the order of the listing, and of nothing else.              *)
(***************************************************************************)
RECURSIVE AddedLines(_, _, _)
\* the listing l read atom by atom from position i: every line that is not
\* empty is copied behind "+ "; fresh says that position i starts a line
AddedLines(l, i, fresh) ==
    IF i > Len(l) THEN (IF fresh THEN <<>> ELSE <<"\n">>)
    ELSE IF l[i] = "\n"
    THEN (IF fresh THEN <<>> ELSE <<"\n">>) \o AddedLines(l, i + 1, TRUE)
    ELSE (IF fresh THEN <<"+", " ">> ELSE <<>>) \o <<l[i]>> \o AddedLines(l, i + 1, FALSE)

\* the number of paths of the listing l: its lines that are not empty
PathCount(l) ==
    Cardinality({i \in 1..Len(l) : l[i] # "\n" /\ (i = 1 \/ l[i - 1] = "\n")})

Count(t, a) == Cardinality({i \in 1..Len(t) : t[i] = a})

ContextHeader == "DEVELOPER CONTEXT: The developer provided this context: "

ContextTail == "This context is CRITICAL"

HasContextSection(p) == \E i \in DOMAIN p : p[i] \in {ContextHeader, ContextTail}

C15_ContextSection ==
    \A i \in DOMAIN httpLog :
        LET p == httpLog[i].prompt
            n == Len(context)
        IN  /\ HasContextSection(p) <=> context # <<>>
            /\ context = <<>> => p = buildPrompt(diff, status, <<>>, changesType)
            /\ context # <<>> =>
                  /\ SubSeq(p, 2, 3) = <<ContextHeader, "\"">>
                  /\ SubSeq(p, 4, 3 + n) = context
                  /\ SubSeq(p, 4 + n, 5 + n) = <<"\"", ContextTail>>
                  /\ <<p[1]>> \o SubSeq(p, 6 + n, Len(p))
                        = buildPrompt(diff, status, <<>>, changesType)

C15_Witness ==
    /\ httpLog # <<>>
    /\ context = <<"--amend", " ", "--help">>
    /\ HasContextSection(httpLog[1].prompt)
    /\ status # <<>>

(***************************************************************************)
(* C16: git status --porcelain runs exactly once on every run that has     *)
(* found a change set that is not empty, whatever its kind, after the diff *)
(* commands and before the request; it does not run when the change set is *)
(* empty or when the diff collection has failed.                           *)
(***************************************************************************)
StatusCommand == "git status --porcelain"

DiffCommands == {"git diff --cached", "git diff", "git ls-files --others --exclude-standard"}

ChangeKinds == {"staged", "unstaged", "untracked"}

StatusRuns == {i \in DOMAIN execLog : execLog[i].cmd = StatusCommand}

C16_StatusOnce ==
    /\ Cardinality(StatusRuns) <= 1
    /\ (changesType \in ChangeKinds /\ pc # "getGitStatus") => Cardinality(StatusRuns) = 1
    /\ changesType \notin ChangeKinds => StatusRuns = {}
    /\ (RunMode /\ pc = "done" /\ TrimSpace(diff) = <<>>) => StatusRuns = {}
    /\ \A i \in StatusRuns :
          /\ TrimSpace(diff) # <<>>
          /\ RanOk("git diff --cached")
          /\ \A j \in DOMAIN execLog : execLog[j].cmd \in DiffCommands => j < i /\ execLog[j].ok
    /\ pc = "getGitStatus" => httpLog = <<>>
    /\ httpLog # <<>> => StatusRuns # {}

C16_Witness ==
    /\ changesType = "untracked"
    /\ Cardinality(StatusRuns) = 1
    /\ httpLog # <<>>
    /\ pc = "done"
    /\ exitCode = 0

(***************************************************************************)
(* C17: on Linux copyToClipboard probes xclip, xsel and wl-copy in this    *)
(* order and stops at the first one found, which it runs; when none is     *)
(* found, or on an operating system other than darwin, linux and windows,  *)
(* it returns an error and launches no subprocess; in every other case     *)
(* exactly one clipboard subprocess is launched, with the commit message   *)
(* as its standard input.                                                  *)
(***************************************************************************)
ClipboardRuns == {i \in DOMAIN execLog : execLog[i].cmd \in ClipboardCommands}

\* exactly one clipboard subprocess, cmd, was launched, fed with the message
OneClipboardRun(cmd) ==
    /\ Cardinality(ClipboardRuns) = 1
    /\ \A i \in ClipboardRuns :
          /\ execLog[i].cmd = cmd
          /\ execLog[i].stdin = commitMsg
          /\ i = Len(execLog)
          /\ copyErr = <<>> <=> execLog[i].ok

ProbeOrder == <<"xclip", "xsel", "wl-copy">>

C17_ClipboardDispatch ==
    /\ goos = "" => ClipboardRuns = {} /\ probed = <<>>
    /\ goos = "linux" =>
          /\ Len(probed) \in 1..3
          /\ \A k \in DOMAIN probed :
                /\ probed[k].name = ProbeOrder[k]
                /\ k < Len(probed) => ~probed[k].found
          /\ probed[Len(probed)].found => OneClipboardRun(probed[Len(probed)].name)
          /\ ~probed[Len(probed)].found =>
                /\ Len(probed) = 3
                /\ ClipboardRuns = {}
                /\ copyErr = <<"no clipboard utility found (install xclip, xsel, or wl-copy)">>
    /\ goos = "darwin" => probed = <<>> /\ OneClipboardRun("pbcopy")
    /\ goos = "windows" => probed = <<>> /\ OneClipboardRun("cmd /c clip")
    /\ goos \notin {"", "linux", "darwin", "windows"} =>
          /\ probed = <<>>
          /\ ClipboardRuns = {}
          /\ copyErr = <<"unsupported operating system: ", goos>>

C17_Witness ==
    /\ goos = "linux"
    /\ probed = <<[name |-> "xclip", found |-> FALSE], [name |-> "xsel", found |-> FALSE],
                  [name |-> "wl-copy", found |-> TRUE]>>
    /\ OneClipboardRun("wl-copy")
    /\ commitMsg # <<>>

(***************************************************************************)
(* C18: whenever the request has been issued, the repository probe has     *)
(* succeeded, the API key is not empty, the diff is not empty after        *)
(* trimming, the kind is one of staged, unstaged and untracked, and git    *)
(* status has succeeded; the clipboard copy is attempted only after the    *)
(* request has returned a commit message.                                  *)
(***************************************************************************)
RequestIssued == httpLog # <<>>

C18_RequestPreconditions ==
    /\ RequestIssued =>
          /\ RanOk("git rev-parse --git-dir")
          /\ apiKey # <<>>
          /\ TrimSpace(diff) # <<>>
          /\ changesType \in {"staged", "unstaged", "untracked"}
          /\ RanOk("git status --porcelain")
          /\ ~GitFailed
          /\ \A i \in DOMAIN httpLog : httpLog[i].key = apiKey
    /\ (pc = "copyToClipboard" \/ ~NoCopyAttempt) =>
          /\ RequestIssued
          /\ GotJson
          /\ genErr = <<>>
          /\ stdout[Len(stdout) - (IF pc = "done" THEN 1 ELSE 0)]
                = Line("Generated commit message", commitMsg)

C18_Witness ==
    /\ RequestIssued
    /\ ~NoCopyAttempt
    /\ changesType = "unstaged"
    /\ copyErr = <<>>
    /\ pc = "done"

(***************************************************************************)
(* C19 as stated: the clean-up is idempotent: applied to a cleaned message *)
(* it leaves the message unchanged, and the final message neither begins   *)
(* nor ends with whitespace or with a quote character.                     *)
(***************************************************************************)
BeginsOrEndsWith(t, chars) == t # <<>> /\ (t[1] \in chars \/ t[Len(t)] \in chars)

C19_Original ==
    Returned =>
        /\ cleanUp(commitMsg) = commitMsg
        /\ ~BeginsOrEndsWith(commitMsg, SpaceChars \cup QuoteChars)

(***************************************************************************)
(* C19 as amended: the final message never begins or ends with a quote     *)
(* character, but it begins or ends with whitespace when the response text *)
(* has whitespace just inside its wrapping quotes; the clean-up applied to *)
(* a cleaned message leaves it unchanged exactly when the message neither  *)
(* begins nor ends with whitespace.                                        *)
(***************************************************************************)
C19_QuotesGoneSpacesMayStay ==
    Returned =>
        /\ commitMsg = cleanUp(FirstText)
        /\ ~BeginsOrEndsWith(commitMsg, QuoteChars)
        /\ cleanUp(commitMsg) = commitMsg <=> ~BeginsOrEndsWith(commitMsg, SpaceChars)
        /\ BeginsOrEndsWith(commitMsg, SpaceChars) =>
              BeginsOrEndsWith(TrimSpace(FirstText), QuoteChars)

C19_Witness ==
    /\ Returned
    /\ FirstText = <<"\"", " ", "m", " ", "\"">>
    /\ commitMsg = <<" ", "m", " ">>
    /\ cleanUp(commitMsg) = <<"m">>

====
